---- MODULE Spec2Model ----
(***************************************************************************)
(* Model of streamlit_dashboard.py, the ecommerce session dashboard.       *)
(*                                                                         *)
(* One run of the script (a render pass) loads the sessions collection     *)
(* through two caches, flattens the nested objects of every document into  *)
(* columns, applies the sidebar filters, and emits metrics and charts; an  *)
(* exception anywhere inside the try block is turned into an error panel.  *)
(*                                                                         *)
(* Encodings:                                                              *)
(*   - a document is a record that holds only the keys it has, so a        *)
(*     missing key is a key outside DOMAIN;                                *)
(*   - a timestamp string is the pair <<date, time of day>>, and a parsed  *)
(*     timestamp the record [date, tod];                                   *)
(*   - a float is the quotient [num, den] it was computed as; den = 0 is   *)
(*     what numpy/pandas return for 0/0 and for the mean of no rows: nan;  *)
(*   - the members of NonNumericValues stand for values of a numeric field *)
(*     that are strings;                                                   *)
(*   - NoneValue stands for a key stored with the value null.              *)
(***************************************************************************)
EXTENDS Integers, Sequences, FiniteSets, TLC

VARIABLES
    store,              \* documents of db.sessions, in cursor order
    now,                \* wall clock, seconds
    client_cached,      \* st.cache_resource holds get_database()'s result
    clients_created,    \* MongoClient objects constructed so far
    data_cache,         \* st.cache_data entry of load_sessions()
    store_calls,        \* db.sessions.find() calls made by the last pass
    raised,             \* statement of the last pass that raised, or "none"
    page,               \* widgets the last pass emitted, in order
    df,                 \* normalized table of the last pass
    date_range,         \* value of the date_input widget
    devices,            \* value of the device multiselect
    session_types,      \* value of the session type multiselect
    filtered_df,        \* filtered view
    metrics,            \* metric label -> value, for the metrics computed
    sales_by_source,    \* grouped sums, as a sequence of [key, sum]
    sales_by_category

vars == <<store, now, client_cached, clients_created, data_cache, store_calls,
          raised, page, df, date_range, devices, session_types, filtered_df,
          metrics, sales_by_source, sales_by_category>>

----------------------------------------------------------------------------
(* Bounds and value sets *)

MaxRows == 2
MaxTicks == 3
TickStep == 100
TTL == 300

Dates == {1, 2}
DeviceValues == {"mobile", "desktop"}
TypeValues == {"converted", "bounced"}
NonNumericValues == {-1}
NoneValue == "<None>"
Envs == {"ok", "no_secret", "unreachable"}

Range(s) == {s[i] : i \in 1..Len(s)}

SeqsUpTo(S, n) == UNION {[1..k -> S] : k \in 0..n}

RECURSIVE SumSeq(_)
SumSeq(s) == IF s = <<>> THEN 0 ELSE Head(s) + SumSeq(Tail(s))

Column(t, f) == [i \in 1..Len(t) |-> t[i][f]]

----------------------------------------------------------------------------
(* Field Normalizer: lines 45-58 *)

\* dict.get(key, default)
Get(d, key, default) == IF key \in DOMAIN d THEN d[key] ELSE default

\* pd.to_datetime on one timestamp string, and Series.dt.date
ToDatetime(s) == [date |-> s[1], tod |-> s[2]]
DateOf(ts) == ts.date

\* pd.DataFrame(list of dicts) has a column for every key some document has
HasColumn(t, col) == \E i \in 1..Len(t) : col \in DOMAIN t[i]

\* A document without the key holds NaN (a float) in that column, and
\* NaN.get(...) raises AttributeError; df[col] raises KeyError when no document
\* has the key.
ApplyGetRaises(t, col) == \E i \in 1..Len(t) : col \notin DOMAIN t[i]

NormalizeRow(doc) ==
    [startTime    |-> ToDatetime(doc.startTime),
     lastActivity |-> ToDatetime(doc.lastActivity),
     device       |-> Get(doc.deviceInfo, "device", "Unknown"),
     browser      |-> Get(doc.deviceInfo, "browser", "Unknown"),
     source       |-> Get(doc.sessionMetadata, "source", "Unknown"),
     sales        |-> Get(doc.sessionMetadata, "sales", 0),
     pageViews    |-> Get(doc.sessionMetadata, "pageViews", 0),
     duration     |-> Get(doc.sessionMetadata, "duration", 0),
     session_type |-> Get(doc.sessionTags, "type", "Unknown"),
     segment      |-> Get(doc.sessionTags, "segment", "Unknown"),
     category     |-> Get(doc.sessionTags, "category", "Unknown")]

\* The statement of lines 46-58 that raises on table t, or "none"
NormalizeRaises(t) ==
    IF ~HasColumn(t, "startTime") THEN "startTime"
    ELSE IF ~HasColumn(t, "lastActivity") THEN "lastActivity"
    ELSE IF ApplyGetRaises(t, "deviceInfo") THEN "device"
    ELSE IF ApplyGetRaises(t, "sessionMetadata") THEN "source"
    ELSE IF ApplyGetRaises(t, "sessionTags") THEN "session_type"
    ELSE "none"

Normalize(t) == [i \in 1..Len(t) |-> NormalizeRow(t[i])]

----------------------------------------------------------------------------
(* Filter Engine: lines 85-91 *)

\* date_range[0] and date_range[1] raise IndexError on a shorter tuple
FilterRaises(dr) == Len(dr) < 2

\* RowPasses with the end of the range compared as a timestamp (midnight)
RowPassesTimestampEnd(r, dr, devs, types) ==
    /\ DateOf(r.startTime) >= dr[1]
    /\ \/ DateOf(r.startTime) < dr[2]
       \/ DateOf(r.startTime) = dr[2] /\ r.startTime.tod = 0
    /\ r.device \in devs
    /\ r.session_type \in types

\* RowPasses with an empty selection taken as no filter
RowPassesEmptyMatchesAll(r, dr, devs, types) ==
    /\ DateOf(r.startTime) >= dr[1]
    /\ DateOf(r.startTime) <= dr[2]
    /\ (devs = {} \/ r.device \in devs)
    /\ (types = {} \/ r.session_type \in types)

RowPasses(r, dr, devs, types) ==
    /\ DateOf(r.startTime) >= dr[1]
    /\ DateOf(r.startTime) <= dr[2]
    /\ r.device \in devs
    /\ r.session_type \in types

Filter(t, dr, devs, types) ==
    SelectSeq(t, LAMBDA r : RowPasses(r, dr, devs, types))

----------------------------------------------------------------------------
(* Aggregation & Metrics Layer: lines 107-124, 157, 193-205, 209 *)

Ratio(a, b) == [num |-> a, den |-> b]
IsNumeric(v) == v \notin NonNumericValues

CountWhere(t, type) == Len(SelectSeq(t, LAMBDA r : r.session_type = type))

\* Series.sum() / len(df) * 100: a numpy scalar division, nan when len is 0
Rate(t, type) == Ratio(CountWhere(t, type) * 100, Len(t))

\* Series.mean(): nan over no rows
Mean(t, f) == Ratio(SumSeq(Column(t, f)), Len(t))

MetricLabels ==
    <<"Total Sessions", "Total Sales", "Avg Duration", "Conversion Rate",
      "Avg Page Views", "Cart Abandonment Rate", "Avg Sales/Session",
      "Bounce Rate">>

MetricValue(label, t) ==
    CASE label = "Total Sessions"        -> Ratio(Len(t), 1)
      [] label = "Total Sales"           -> Ratio(SumSeq(Column(t, "sales")), 1)
      [] label = "Avg Duration"          -> Ratio(SumSeq(Column(t, "duration")), Len(t) * 60)
      [] label = "Conversion Rate"       -> Rate(t, "converted")
      [] label = "Avg Page Views"        -> Mean(t, "pageViews")
      [] label = "Cart Abandonment Rate" -> Rate(t, "cart_abandoned")
      [] label = "Avg Sales/Session"     -> Mean(t, "sales")
      [] label = "Bounce Rate"           -> Rate(t, "bounced")

\* The first metric whose computation or formatting raises on view t: a sum or
\* mean over strings raises TypeError, and a string sum fails the float format.
MetricsRaises(t) ==
    IF \E i \in 1..Len(t) : ~IsNumeric(t[i].sales) THEN "Total Sales"
    ELSE IF \E i \in 1..Len(t) : ~IsNumeric(t[i].duration) THEN "Avg Duration"
    ELSE IF \E i \in 1..Len(t) : ~IsNumeric(t[i].pageViews) THEN "Avg Page Views"
    ELSE "none"

\* groupby(f) keeps one group per distinct non-null key (dropna=True)
GroupKeys(t, f) == {t[i][f] : i \in 1..Len(t)} \ {NoneValue}

GroupTotal(t, f, k) == SumSeq(Column(SelectSeq(t, LAMBDA r : r[f] = k), "sales"))

\* groupby(f)['sales'].sum(): the sum of every group
GroupTotals(t, f) == [k \in GroupKeys(t, f) |-> GroupTotal(t, f, k)]

\* SortedDescending without ascending=False
SortedAscending(totals, p) ==
    \A i \in 1..(Len(p) - 1) : totals[p[i]] <= totals[p[i + 1]]

\* Series p of group keys is in descending order of the sums
SortedDescending(totals, p) ==
    \A i \in 1..(Len(p) - 1) : totals[p[i]] >= totals[p[i + 1]]

\* groupby(f)['sales'].sum().sort_values(ascending=False): every result the
\* statement may produce, each a sequence of [key, sum]. The default kind of
\* sort_values is quicksort, which is not stable: groups with equal sums come
\* out in any order.
GroupSum(t, f) ==
    LET totals == GroupTotals(t, f)
        keys == DOMAIN totals
        n == Cardinality(keys)
        orders == {p \in [1..n -> keys] :
                      /\ \A i, j \in 1..n : i # j => p[i] # p[j]
                      /\ SortedDescending(totals, p)}
    IN {[i \in 1..n |-> [key |-> p[i], sum |-> totals[p[i]]]] : p \in orders}

----------------------------------------------------------------------------
(* Data Loader: lines 16-35 *)

\* @st.cache_resource get_database(): the body runs only while nothing is
\* cached; st.secrets[...] raises when the secret is missing, and a raise is
\* not cached.
get_database(env) ==
    IF client_cached
    THEN [raised |-> FALSE, cached |-> TRUE, created |-> clients_created]
    ELSE IF env = "no_secret"
    THEN [raised |-> TRUE, cached |-> FALSE, created |-> clients_created]
    ELSE [raised |-> FALSE, cached |-> TRUE, created |-> clients_created + 1]

\* CacheFresh with an entry still served at the instant it expires
CacheFreshInclusive(cache, t) == cache.valid /\ t <= cache.at + TTL

\* An entry of st.cache_data(ttl=300) is served while younger than its ttl
CacheFresh(cache, t) == cache.valid /\ t < cache.at + TTL

\* @st.cache_data(ttl=300) load_sessions(): the cached table, or one call of
\* db.sessions.find() whose result is cached; a raise is not cached.
load_sessions(env) ==
    IF CacheFresh(data_cache, now)
    THEN [raised |-> FALSE, table |-> data_cache.data, calls |-> 0,
          cached |-> client_cached, created |-> clients_created,
          cache |-> data_cache]
    ELSE LET db == get_database(env) IN
         IF db.raised
         THEN [raised |-> TRUE, table |-> <<>>, calls |-> 0,
               cached |-> db.cached, created |-> db.created,
               cache |-> data_cache]
         ELSE IF env = "unreachable"
         THEN [raised |-> TRUE, table |-> <<>>, calls |-> 1,
               cached |-> db.cached, created |-> db.created,
               cache |-> data_cache]
         ELSE [raised |-> FALSE, table |-> store, calls |-> 1,
               cached |-> db.cached, created |-> db.created,
               cache |-> [valid |-> TRUE, at |-> now, data |-> store]]

----------------------------------------------------------------------------
(* Presentation: the widgets of one pass, lines 38-39, 62-231 *)

Header == <<"title", "rule">>

\* Every widget the try block emits when nothing raises, in order
Dashboard ==
    <<"sidebar.header", "sidebar.date_input", "sidebar.multiselect.device",
      "sidebar.multiselect.session_type", "sidebar.rule",
      "sidebar.download_button",
      "metric.Total Sessions", "metric.Total Sales", "metric.Avg Duration",
      "metric.Conversion Rate", "metric.Avg Page Views", "rule.charts",
      "subheader.Sessions by Device", "chart.fig1",
      "subheader.Session Type Distribution", "chart.fig2",
      "subheader.Sales by Traffic Source", "chart.fig3",
      "subheader.Customer Segments", "chart.fig4",
      "subheader.Sessions Over Time", "chart.fig5",
      "rule.advanced", "subheader.Advanced Analytics",
      "metric.Cart Abandonment Rate", "metric.Avg Sales/Session",
      "metric.Bounce Rate",
      "subheader.Sales by Product Category", "chart.fig6">>

\* ErrorPanel without the remediation instructions
ErrorPanelBare == <<"error">>

\* The except clause, lines 219-226
ErrorPanel == <<"error", "info", "code">>

Footer == <<"rule", "footer.powered_by", "footer.credits">>

IndexOf(s, w) == CHOOSE i \in 1..Len(s) : s[i] = w

\* The widget whose statement is the one that raised
WidgetOf(stmt) ==
    CASE stmt = "filtered_df"    -> "sidebar.rule"
      [] stmt = "Total Sales"    -> "metric.Total Sales"
      [] stmt = "Avg Duration"   -> "metric.Avg Duration"
      [] stmt = "Avg Page Views" -> "metric.Avg Page Views"
      [] OTHER                   -> "sidebar.header"

\* The statements of the try block that can raise
Statements ==
    {"load_sessions", "startTime", "lastActivity", "device", "source",
     "session_type", "filtered_df", "Total Sales", "Avg Duration",
     "Avg Page Views"}

\* The page of a pass: what was emitted before the raise, the error panel of
\* the except clause, and the footer, which follows the try statement
Pages ==
    [stmt \in Statements \cup {"none"} |->
        IF stmt = "none"
        THEN Header \o Dashboard \o Footer
        ELSE Header \o SubSeq(Dashboard, 1, IndexOf(Dashboard, WidgetOf(stmt)) - 1)
                    \o ErrorPanel \o Footer]

PageOf(stmt) == Pages[stmt]

\* The metrics computed before the statement that raised
MetricsOf(stmt, t) ==
    LET n == IF stmt = "none" THEN Len(MetricLabels)
             ELSE IndexOf(MetricLabels, stmt) - 1
    IN [l \in {MetricLabels[i] : i \in 1..n} |-> MetricValue(l, t)]

NoMetrics == [l \in {} |-> Ratio(0, 1)]

----------------------------------------------------------------------------
(* The sessions collection *)

EmptyDict == [k \in {} |-> 0]

Doc(ts, dev, type, src, sales, duration, cat) ==
    [startTime       |-> ts,
     lastActivity    |-> ts,
     deviceInfo      |-> [device |-> dev, browser |-> "chrome"],
     sessionMetadata |-> [source |-> src, sales |-> sales, pageViews |-> 3,
                          duration |-> duration],
     sessionTags     |-> [type |-> type, segment |-> "new", category |-> cat]]

Without(doc, key) == [k \in DOMAIN doc \ {key} |-> doc[k]]

DocA == Doc(<<1, 0>>, "mobile", "converted", "ads", 2, 60, "books")
DocB == Doc(<<2, 1>>, "desktop", "bounced", "search", 0, 30, "toys")

\* Documents as the collection may hold them: complete, with nested keys
\* missing, with a nested object missing, with a string in a numeric field
DocSamples ==
    {DocA, DocB,
     [startTime |-> <<1, 1>>, lastActivity |-> <<1, 1>>, deviceInfo |-> EmptyDict,
      sessionMetadata |-> [pageViews |-> 1], sessionTags |-> EmptyDict],
     Without(DocA, "deviceInfo"),
     Without(DocA, "sessionMetadata"),
     Without(DocA, "sessionTags"),
     Doc(<<1, 0>>, "mobile", "converted", "ads", -1, 60, "books"),
     Doc(<<2, 1>>, "desktop", "bounced", "search", 0, -1, "toys")}

----------------------------------------------------------------------------
(* The render pass: one run of the script, lines 37-231 *)

NoCache == [valid |-> FALSE, at |-> 0, data |-> <<>>]

\* Everything but the collection, before the first pass
Fresh ==
    /\ now = 0
    /\ client_cached = FALSE
    /\ clients_created = 0
    /\ data_cache = NoCache
    /\ store_calls = 0
    /\ raised = "none"
    /\ page = <<>>
    /\ df = <<>>
    /\ date_range = <<>>
    /\ devices = {}
    /\ session_types = {}
    /\ filtered_df = <<>>
    /\ metrics = NoMetrics
    /\ sales_by_source = <<>>
    /\ sales_by_category = <<>>

Init ==
    /\ store \in SeqsUpTo({DocA, DocB}, MaxRows)
    /\ Fresh

\* What a pass that raised at stmt leaves: t, dr, devs, types and f are the
\* values the pass had assigned before the raise
Outcome(stmt, t, dr, devs, types, f, sbs, sbc) ==
    /\ raised' = stmt
    /\ page' = PageOf(stmt)
    /\ df' = t
    /\ date_range' = dr
    /\ devices' = devs
    /\ session_types' = types
    /\ filtered_df' = f
    /\ metrics' = IF stmt \in {"none", "Total Sales", "Avg Duration", "Avg Page Views"}
                  THEN MetricsOf(stmt, f) ELSE NoMetrics
    /\ sales_by_source' = sbs
    /\ sales_by_category' = sbc

\* The environments a pass can tell apart: while the cached table is served
\* neither the secret nor the store is looked at
EnvsSeen == IF CacheFresh(data_cache, now) THEN {"ok"} ELSE Envs

\* One pass. A singleton quantifier binds a value the statements below share,
\* as the script's variable of that name does.
Render ==
    \E env \in EnvsSeen :
      \E L \in {load_sessions(env)} :
        \E early \in {IF L.raised THEN "load_sessions" ELSE NormalizeRaises(L.table)} :
           /\ client_cached' = L.cached
           /\ clients_created' = L.created
           /\ data_cache' = L.cache
           /\ store_calls' = L.calls
           /\ UNCHANGED <<store, now>>
           /\ IF early # "none"
              THEN Outcome(early, <<>>, <<>>, {}, {}, <<>>, <<>>, <<>>)
              ELSE \E t \in {Normalize(L.table)} :
                   \E dr \in SeqsUpTo(Dates, 2),
                      devs \in SUBSET Range(Column(t, "device")),
                      types \in SUBSET Range(Column(t, "session_type")) :
                       IF FilterRaises(dr)
                       THEN Outcome("filtered_df", t, dr, devs, types, <<>>, <<>>, <<>>)
                       ELSE \E f \in {Filter(t, dr, devs, types)} :
                            \E late \in {MetricsRaises(f)} :
                               IF late # "none"
                               THEN Outcome(late, t, dr, devs, types, f, <<>>, <<>>)
                               ELSE \E sbs \in GroupSum(f, "source"),
                                       sbc \in GroupSum(f, "category") :
                                        Outcome("none", t, dr, devs, types, f, sbs, sbc)

\* Time passes between passes
Tick ==
    /\ now + TickStep <= MaxTicks * TickStep
    /\ now' = now + TickStep
    /\ UNCHANGED <<store, client_cached, clients_created, data_cache, store_calls,
                   raised, page, df, date_range, devices, session_types,
                   filtered_df, metrics, sales_by_source, sales_by_category>>

Next == Render \/ Tick

Spec == Init /\ [][Next]_vars

\* Passes at one instant, over every collection of sample documents
InitPasses ==
    /\ store \in SeqsUpTo(DocSamples, MaxRows)
    /\ Fresh

NextPasses == Render

SpecPasses == InitPasses /\ [][NextPasses]_vars

----------------------------------------------------------------------------
(* The filter alone, over every table of normalized rows *)

Row(ts, dev, type, src, sales, cat) ==
    NormalizeRow(Doc(ts, dev, type, src, sales, 60, cat))

\* Timestamp strings: a morning of the first day, a morning and an afternoon of
\* the second
StartTimes == {<<1, 0>>, <<2, 0>>, <<2, 1>>}

FilterRows ==
    {Row(ts, dev, type, "ads", 1, "books") :
        ts \in StartTimes, dev \in DeviceValues, type \in TypeValues}

InitFilter ==
    /\ store = <<>>
    /\ now = 0
    /\ client_cached = FALSE
    /\ clients_created = 0
    /\ data_cache = NoCache
    /\ store_calls = 0
    /\ raised = "none"
    /\ page = <<>>
    /\ df \in SeqsUpTo(FilterRows, MaxRows)
    /\ date_range = <<>>
    /\ devices = {}
    /\ session_types = {}
    /\ filtered_df = <<>>
    /\ metrics = NoMetrics
    /\ sales_by_source = <<>>
    /\ sales_by_category = <<>>

\* ApplyFilters with the view assigned back to df
ApplyFiltersInPlace ==
    \E dr \in SeqsUpTo(Dates, 2), devs \in SUBSET DeviceValues,
       types \in SUBSET TypeValues :
        /\ date_range' = dr
        /\ devices' = devs
        /\ session_types' = types
        /\ raised' = IF FilterRaises(dr) THEN "filtered_df" ELSE "none"
        /\ filtered_df' = IF FilterRaises(dr) THEN <<>> ELSE Filter(df, dr, devs, types)
        /\ df' = filtered_df'
        /\ UNCHANGED <<store, now, client_cached, clients_created, data_cache,
                       store_calls, page, metrics, sales_by_source,
                       sales_by_category>>

\* Lines 86-91 on table df with the widget values dr, devs, types
ApplyFilters ==
    \E dr \in SeqsUpTo(Dates, 2), devs \in SUBSET DeviceValues,
       types \in SUBSET TypeValues :
        /\ date_range' = dr
        /\ devices' = devs
        /\ session_types' = types
        /\ raised' = IF FilterRaises(dr) THEN "filtered_df" ELSE "none"
        /\ filtered_df' = IF FilterRaises(dr) THEN <<>> ELSE Filter(df, dr, devs, types)
        /\ UNCHANGED <<store, now, client_cached, clients_created, data_cache,
                       store_calls, page, df, metrics, sales_by_source,
                       sales_by_category>>

NextFilter == ApplyFilters

SpecFilter == InitFilter /\ [][NextFilter]_vars

----------------------------------------------------------------------------
(* The grouped sums alone, over every filtered view *)

SourceValues == {"ads", "search", NoneValue}
CategoryValues == {"books", "toys"}
SalesValues == {0, 1, 2}

GroupRows ==
    {Row(<<1, 0>>, "mobile", "converted", src, sales, cat) :
        src \in SourceValues, sales \in SalesValues, cat \in CategoryValues}

InitGroup ==
    /\ store = <<>>
    /\ now = 0
    /\ client_cached = FALSE
    /\ clients_created = 0
    /\ data_cache = NoCache
    /\ store_calls = 0
    /\ raised = "none"
    /\ page = <<>>
    /\ df = <<>>
    /\ date_range = <<>>
    /\ devices = {}
    /\ session_types = {}
    /\ filtered_df \in SeqsUpTo(GroupRows, MaxRows)
    /\ metrics = NoMetrics
    /\ sales_by_source = <<>>
    /\ sales_by_category = <<>>

\* Lines 157 and 209 on view filtered_df
GroupSales ==
    \E sbs \in GroupSum(filtered_df, "source"),
       sbc \in GroupSum(filtered_df, "category") :
        /\ sales_by_source' = sbs
        /\ sales_by_category' = sbc
        /\ UNCHANGED <<store, now, client_cached, clients_created, data_cache,
                       store_calls, raised, page, df, date_range, devices,
                       session_types, filtered_df, metrics>>

NextGroup == GroupSales

SpecGroup == InitGroup /\ [][NextGroup]_vars

----------------------------------------------------------------------------
(* Properties of the filter, under SpecFilter *)

\* Row i of df satisfies the three predicates of the widget values in force
Wanted(i) ==
    /\ date_range[1] <= df[i].startTime.date
    /\ df[i].startTime.date <= date_range[2]
    /\ df[i].device \in devices
    /\ df[i].session_type \in session_types

\* Sequence s is the rows of t at the indices keep, in the order of t
RowsAt(s, t, keep) ==
    /\ Len(s) = Cardinality(keep)
    /\ \E g \in [1..Len(s) -> keep] :
          /\ \A i, j \in 1..Len(s) : i < j => g[i] < g[j]
          /\ \A i \in 1..Len(s) : s[i] = t[g[i]]

\* C1: for a date range [start_date, end_date], a device set and a session
\* type set, the filtered view is exactly the rows of the table whose start
\* date lies in the range, both ends included, whose device is in the device
\* set and whose session type is in the session type set, in table order.
C1_FilterExact ==
    Len(date_range) = 2 =>
        RowsAt(filtered_df, df, {i \in 1..Len(df) : Wanted(i)})

\* A two-row table whose first row is dropped on its date and whose second,
\* a session of the afternoon of the last day of the range, is kept
C1_Witness ==
    /\ Len(date_range) = 2
    /\ Len(df) = 2
    /\ filtered_df = <<df[2]>>
    /\ df[1].startTime.date < date_range[1]
    /\ df[2].startTime = [date |-> date_range[2], tod |-> 1]

\* C6: a date range with start_date > end_date, an empty device set or an
\* empty session type set gives a filtered view of 0 rows and no failure,
\* whatever the table holds.
C6_DegenerateEmpty ==
    (/\ Len(date_range) = 2
     /\ \/ date_range[1] > date_range[2]
        \/ devices = {}
        \/ session_types = {})
    => (filtered_df = <<>> /\ raised = "none")

\* A non-empty table, every device allowed, no session type allowed
C6_Witness ==
    /\ Len(df) = 2
    /\ Len(date_range) = 2
    /\ date_range[1] <= date_range[2]
    /\ devices = DeviceValues
    /\ session_types = {}
    /\ filtered_df = <<>>

\* C10: the filter applied to its own output with the same widget values
\* gives that output again, and applying the filter leaves the table as it was.
C10_Idempotent ==
    [][/\ df' = df
       /\ Len(date_range') = 2 =>
            Filter(filtered_df', date_range', devices', session_types') = filtered_df']_vars

\* A two-row table of different rows of which the filter kept only the first
C10_Witness ==
    /\ Len(date_range) = 2
    /\ Len(df) = 2
    /\ df[1] # df[2]
    /\ filtered_df = <<df[1]>>

----------------------------------------------------------------------------
(* Properties of the grouped sums, under SpecGroup *)

\* Lines 157 and 209 have run: a category is never null, so a non-empty view
\* has a category group
Grouped == sales_by_category # <<>>

\* Sum of sales over the rows of the view whose field f is k
SalesOf(f, k) ==
    SumSeq([i \in 1..Len(filtered_df) |->
               IF filtered_df[i][f] = k THEN filtered_df[i].sales ELSE 0])

\* Index of the first row of the view whose field f is k
FirstRow(f, k) ==
    CHOOSE i \in 1..Len(filtered_df) :
        /\ filtered_df[i][f] = k
        /\ \A j \in 1..(i - 1) : filtered_df[j][f] # k

\* Result g holds one entry for every value in keys, with the sum of its
\* group, in descending order of the sums
SumsOf(g, f, keys) ==
    /\ {g[i].key : i \in 1..Len(g)} = keys
    /\ Len(g) = Cardinality(keys)
    /\ \A i \in 1..Len(g) : g[i].sum = SalesOf(f, g[i].key)
    /\ \A i \in 1..(Len(g) - 1) : g[i].sum >= g[i + 1].sum

\* Groups of equal sums are in the order their values first occur in the view
TiesInInputOrder(g, f) ==
    \A i \in 1..(Len(g) - 1) :
        g[i].sum = g[i + 1].sum => FirstRow(f, g[i].key) < FirstRow(f, g[i + 1].key)

\* C8 as stated: group_sum has one entry per distinct group value of the view,
\* with the sum of sales of that group, in descending order of the sums, and
\* groups of equal sums in the order their values first occur in the view.
C8_AsStated ==
    Grouped =>
        /\ SumsOf(sales_by_source, "source", Range(Column(filtered_df, "source")))
        /\ TiesInInputOrder(sales_by_source, "source")
        /\ SumsOf(sales_by_category, "category", Range(Column(filtered_df, "category")))
        /\ TiesInInputOrder(sales_by_category, "category")

\* C8, amended: group_sum has one entry per distinct group value of the view
\* that is not null, with the sum of sales of that group, in descending order
\* of the sums; the order of groups of equal sums is not determined.
C8_GroupSum ==
    Grouped =>
        /\ SumsOf(sales_by_source, "source",
                  Range(Column(filtered_df, "source")) \ {NoneValue})
        /\ SumsOf(sales_by_category, "category",
                  Range(Column(filtered_df, "category")) \ {NoneValue})

\* Two sources of equal sums, the one that occurs second in the view first in
\* the result
C8_Witness ==
    /\ Grouped
    /\ Len(filtered_df) = 2
    /\ Len(sales_by_source) = 2
    /\ sales_by_source[1].sum = sales_by_source[2].sum
    /\ sales_by_source[1].sum > 0
    /\ sales_by_source[1].key = filtered_df[2].source

----------------------------------------------------------------------------
(* Properties of the loader and its caches, under Spec *)

\* A pass has run
Rendered == page # <<>>

\* C7: after a successful fetch at time t, a pass at a time before t + 300
\* is served the cached table without a call to the store, and a pass at or
\* after t + 300 calls the store again; the connection object is created at
\* most once. A step that leaves the clock alone is a pass.
C7_CacheWindow ==
    [][now' = now =>
         LET inWindow == data_cache.valid /\ now < data_cache.at + 300 IN
         /\ inWindow => (store_calls' = 0 /\ data_cache' = data_cache)
         /\ (~inWindow /\ raised' # "load_sessions") =>
                /\ store_calls' = 1
                /\ data_cache' = [valid |-> TRUE, at |-> now, data |-> store]
         /\ store_calls' <= 1
         /\ clients_created' <= 1]_vars

\* A pass served from the cache 200 seconds after the fetch
C7_Witness ==
    /\ Rendered
    /\ raised = "none"
    /\ store_calls = 0
    /\ data_cache.valid
    /\ now = data_cache.at + 200

\* C9: when the loader fails, the pass shows the error message and the
\* remediation instructions and no widget of the dashboard, the footer after
\* the try statement is rendered, and the store was called at most once.
C9_LoaderFailure ==
    raised = "load_sessions" =>
        /\ page = <<"title", "rule", "error", "info", "code",
                    "rule", "footer.powered_by", "footer.credits">>
        /\ store_calls <= 1

\* The store was called and did not answer
C9_Witness ==
    /\ raised = "load_sessions"
    /\ store_calls = 1
    /\ client_cached

----------------------------------------------------------------------------
(* Properties of one pass, under SpecPasses *)

NormalizeStatements == {"device", "source", "session_type"}

\* Document d lacks nested key k of nested object o, or lacks o
Lacks(d, o, k) == o \notin DOMAIN d \/ k \notin DOMAIN d[o]

\* C2: normalization never raises, and a derived field whose nested key or
\* whose nested object is absent from the document has its default.
C2_NormalizeTotal ==
    (Rendered /\ raised # "load_sessions" /\ store # <<>>) =>
        /\ raised \notin NormalizeStatements
        /\ Len(df) = Len(store)
        /\ \A i \in 1..Len(df) :
              /\ Lacks(store[i], "deviceInfo", "device") => df[i].device = "Unknown"
              /\ Lacks(store[i], "deviceInfo", "browser") => df[i].browser = "Unknown"
              /\ Lacks(store[i], "sessionMetadata", "source") => df[i].source = "Unknown"
              /\ Lacks(store[i], "sessionMetadata", "sales") => df[i].sales = 0
              /\ Lacks(store[i], "sessionMetadata", "pageViews") => df[i].pageViews = 0
              /\ Lacks(store[i], "sessionMetadata", "duration") => df[i].duration = 0
              /\ Lacks(store[i], "sessionTags", "type") => df[i].session_type = "Unknown"
              /\ Lacks(store[i], "sessionTags", "segment") => df[i].segment = "Unknown"
              /\ Lacks(store[i], "sessionTags", "category") => df[i].category = "Unknown"

DashboardWidgets ==
    {"sidebar.download_button",
     "metric.Total Sessions", "metric.Total Sales", "metric.Avg Duration",
     "metric.Conversion Rate", "metric.Avg Page Views",
     "metric.Cart Abandonment Rate", "metric.Avg Sales/Session",
     "metric.Bounce Rate",
     "chart.fig1", "chart.fig2", "chart.fig3", "chart.fig4", "chart.fig5",
     "chart.fig6"}

\* C3: a pass ends with the full dashboard and no error panel, or with the
\* error panel and no download button, metric or chart.
C3_AllOrNothing ==
    Rendered =>
        IF "error" \in Range(page)
        THEN Range(page) \cap DashboardWidgets = {}
        ELSE DashboardWidgets \subseteq Range(page)

MeanAndRateLabels ==
    {"Avg Duration", "Conversion Rate", "Avg Page Views",
     "Cart Abandonment Rate", "Avg Sales/Session", "Bounce Rate"}

\* C4: when the filters exclude every row of a non-empty table, the pass
\* completes without raising, the count is 0, and no mean or rate metric is
\* the result of a division by zero.
C4_EmptyViewSentinels ==
    (Rendered /\ df # <<>> /\ filtered_df = <<>> /\ Len(date_range) = 2) =>
        /\ raised = "none"
        /\ metrics["Total Sessions"] = [num |-> 0, den |-> 1]
        /\ \A l \in MeanAndRateLabels : metrics[l].den # 0

\* C5: when the loader returns an empty table, the pass does not raise and
\* reaches the metrics with a count of 0 and no mean or rate metric that is the
\* result of a division by zero.
C5_EmptyCollection ==
    (Rendered /\ raised # "load_sessions" /\ store = <<>>) =>
        /\ raised = "none"
        /\ metrics["Total Sessions"] = [num |-> 0, den |-> 1]
        /\ \A l \in MeanAndRateLabels : metrics[l].den # 0

====
